---- MODULE Spec2Model ----
(***************************************************************************)
(* A model of src/server.js: the document-upload pipeline (temp file,      *)
(* scanned-PDF detection, extraction, text normalisation, response cache,  *)
(* upstream generation call) and the ad hoc generation endpoints.          *)
(*                                                                         *)
(* server.js holds three revisions of the server.  Two of them (lines      *)
(* 1-243 and 715-980) call the OpenAI SDK and differ only in the prompt    *)
(* text; the third (lines 245-713) calls the Gemini REST API through       *)
(* axios and adds the /ask, /flashcards, /quiz and /explain endpoints.     *)
(* The variable `variant` says which revision is the running server.       *)
(*                                                                         *)
(* A JavaScript string is modelled as a sequence of one-character strings. *)
(* Node runs one synchronous segment of one handler at a time; every       *)
(* action below is one such segment, from the resumption of an `await` to  *)
(* the next `await` (or to the end of the handler).                        *)
(***************************************************************************)
EXTENDS Integers, Sequences, FiniteSets, TLC

(* ---------------------------------------------------------------- bounds *)

\* Requests the model lets arrive (in flight together or one after another).
NumReq == 2
\* Date.now() takes the values 0..MaxTime.
MaxTime == 1
\* Longest input string given to cleanText in SpecClean.
MaxLen == 4
\* Most pages of a PDF given to isScannedPDF in SpecScan.
MaxPages == 3
\* Most text items on one page of such a PDF.
MaxItems == 1

(* ------------------------------------------------------ JavaScript values *)

\* Values that are not strings.  A string is a sequence of one-character
\* strings, so these one-element sequences are no string of the model.
Null == <<"null">>
Undefined == <<"undefined">>
\* What a definition yields when the code it models throws a TypeError.
TypeError == <<"TypeError">>
\* A local variable that has not been assigned.
Unset == <<"unset">>

\* !v for the values the model uses: null, undefined and "" are falsy.
Falsy(v) == v \in {Null, Undefined, <<>>}

(* ------------------------------------------------------ character classes *)

LowerCase == {"a", "p", "d", "f", "o", "c", "x", "t"}
UpperCase == {"A", "P", "D", "F"}
Letter == LowerCase \cup UpperCase
Digit == {"1"}
Punct == {".", ",", ";", ":"}
WhiteSpace == {" ", "\n"}
\* The two bullet markers of the regular expression: U+2022 and U+F0A7.
Bullets == {"U+2022", "U+F0A7"}
Char == Letter \cup Digit \cup Punct \cup WhiteSpace \cup Bullets \cup {"-"}

(* --------------------------------------------- String.prototype.replace/g *)

RECURSIVE RunLen(_, _)
\* The length of the longest prefix of s made of characters of class.
RunLen(s, class) ==
  IF s # <<>> /\ Head(s) \in class THEN 1 + RunLen(Tail(s), class) ELSE 0

RECURSIVE ReplaceRuns(_, _, _, _)
\* s.replace(/[class]{min,}/g, rep): greedy, left to right, non-overlapping.
ReplaceRuns(s, class, min, rep) ==
  IF s = <<>> THEN <<>>
  ELSE LET n == RunLen(s, class) IN
       IF n >= min
       THEN rep \o ReplaceRuns(SubSeq(s, n + 1, Len(s)), class, min, rep)
       ELSE <<Head(s)>> \o ReplaceRuns(Tail(s), class, min, rep)

RECURSIVE InsertBetween(_, _, _)
\* s.replace(/([first])([second])/g, "$1 $2"): a match consumes both of its
\* characters, and the scan goes on after the second one.
InsertBetween(s, first, second) ==
  IF Len(s) < 2 THEN s
  ELSE IF s[1] \in first /\ s[2] \in second
       THEN <<s[1], " ", s[2]>> \o InsertBetween(SubSeq(s, 3, Len(s)), first, second)
       ELSE <<s[1]>> \o InsertBetween(Tail(s), first, second)

RECURSIVE ReplaceEach(_, _, _)
\* s.replace(/[class]/g, rep)
ReplaceEach(s, class, rep) ==
  IF s = <<>> THEN <<>>
  ELSE (IF Head(s) \in class THEN rep ELSE <<Head(s)>>)
       \o ReplaceEach(Tail(s), class, rep)

RECURSIVE TrimStart(_)
TrimStart(s) ==
  IF s # <<>> /\ Head(s) \in WhiteSpace THEN TrimStart(Tail(s)) ELSE s

RECURSIVE TrimEnd(_)
TrimEnd(s) ==
  IF s # <<>> /\ s[Len(s)] \in WhiteSpace
  THEN TrimEnd(SubSeq(s, 1, Len(s) - 1)) ELSE s

\* String.prototype.trim
Trim(s) == TrimEnd(TrimStart(s))

(* --------------------------------------------------------------- cleanText *)

\* .replace(/\n+/g, "\n")
CollapseNewlines(s) == ReplaceRuns(s, {"\n"}, 1, <<"\n">>)
\* .replace(/([a-z])([A-Z])/g, "$1 $2")
SplitCamel(s) == InsertBetween(s, LowerCase, UpperCase)
\* .replace(/([a-zA-Z])(\d)/g, "$1 $2")
SplitLetterDigit(s) == InsertBetween(s, Letter, Digit)
\* A cleanText without the digit-letter replacement.
SplitDigitLetterSkipped(s) == s
\* .replace(/(\d)([a-zA-Z])/g, "$1 $2")
SplitDigitLetter(s) == InsertBetween(s, Digit, Letter)
\* .replace(/\u2022|\uF0A7/g, "- "): each bullet marker becomes "- ".
ReplaceBullets(s) == ReplaceEach(s, Bullets, <<"-", " ">>)
\* .replace(/([.,;:])([^\s])/g, "$1 $2")
SpacePunct(s) == InsertBetween(s, Punct, Char \ WhiteSpace)
\* .replace(/\s{2,}/g, " ")
CollapseSpaces(s) == ReplaceRuns(s, WhiteSpace, 2, <<" ">>)

\* The chain of replacements and the final trim (lines 32-40, 271-279).
cleanTextChain(text) ==
  Trim(CollapseSpaces(SpacePunct(ReplaceBullets(SplitDigitLetter(
    SplitLetterDigit(SplitCamel(CollapseNewlines(text))))))))

\* cleanText of the Gemini revision: `if (!text) return "";` first.
cleanTextGuarded(text) == IF Falsy(text) THEN <<>> ELSE cleanTextChain(text)

\* cleanText of the OpenAI revisions: no guard, so text.replace on null or
\* undefined throws a TypeError.
cleanTextUnguarded(text) ==
  IF text \in {Null, Undefined} THEN TypeError ELSE cleanTextChain(text)

cleanText(v, text) ==
  IF v = "gemini" THEN cleanTextGuarded(text) ELSE cleanTextUnguarded(text)

(* ------------------------------------------------------------------ state *)

VARIABLES
  variant,        \* which revision of server.js runs: "openai" or "gemini"
  now,            \* the value Date.now() returned last
  cache,          \* const cache = new Map(): cleaned text -> summary
  tempDocs,       \* ./temp_docs: the paths of the files in it
  tempImages,     \* ./temp_images: the paths of the files in it
  req,            \* per request: the request its handler is serving
  pc,             \* per request: the await its handler is suspended at
  tempFilePath,   \* per request: the handler's tempFilePath
  tempImagePath,  \* per request: extractTextFromImages's tempImagePath
  cleanedText,    \* per request: the handler's cleanedText
  res,            \* per request: the responses sent, in order
  upstreamCalls,  \* per request: calls made to the generation API
  answeredBefore, \* per request: the requests answered when it arrived
  normIn,         \* SpecClean: the argument of cleanText
  normOut,        \* SpecClean: cleanText(normIn)
  normTwice,      \* SpecClean: cleanText(normOut)
  pdfPages,       \* SpecScan: text items on each page of the PDF
  pageChecks,     \* SpecScan: the state of each promise of pageChecks
  arrivals,       \* SpecScan: the pages in the order their promises settled
  scanPc,         \* SpecScan: where isScannedPDF is
  scanResult      \* SpecScan: the value isScannedPDF returned

httpVars == <<now, cache, tempDocs, tempImages, req, pc, tempFilePath,
              tempImagePath, cleanedText, res, upstreamCalls, answeredBefore>>
normVars == <<normIn, normOut, normTwice>>
scanVars == <<pdfPages, pageChecks, arrivals, scanPc, scanResult>>
vars == <<variant, httpVars, normVars, scanVars>>

Variants == {"openai", "gemini"}
Req == 1 .. NumReq
\* A Map with no entry.
Empty == [x \in {} |-> x]
\* map.set(k, v)
Put(m, k, v) == [x \in DOMAIN m \cup {k} |-> IF x = k THEN v ELSE m[x]]
\* No request, and no path.
NoRequest ==
  [ep |-> "none", file |-> Undefined, query |-> Undefined, context |-> Undefined,
   question |-> Undefined, correctAnswer |-> Undefined]
NoPath == [dir |-> "none", time |-> 0, name |-> <<>>]

NormIdle == normIn = Unset /\ normOut = Unset /\ normTwice = Unset
ScanIdle ==
  /\ pdfPages = <<>>
  /\ pageChecks = <<>>
  /\ arrivals = <<>>
  /\ scanPc = "idle"
  /\ scanResult = FALSE
HttpIdle ==
  /\ now = 0
  /\ cache = Empty
  /\ tempDocs = {}
  /\ tempImages = {}
  /\ req = [r \in Req |-> NoRequest]
  /\ pc = [r \in Req |-> "idle"]
  /\ tempFilePath = [r \in Req |-> NoPath]
  /\ tempImagePath = [r \in Req |-> NoPath]
  /\ cleanedText = [r \in Req |-> Unset]
  /\ res = [r \in Req |-> <<>>]
  /\ upstreamCalls = [r \in Req |-> 0]
  /\ answeredBefore = [r \in Req |-> {}]

(* ------------------------------------------------ the text normaliser alone *)

RECURSIVE StringsUpTo(_)
\* The strings of at most n characters over the input alphabet.
StringsUpTo(n) ==
  IF n = 0 THEN {<<>>}
  ELSE LET shorter == StringsUpTo(n - 1) IN
       shorter \cup {Append(s, c) : s \in shorter, c \in {"a", "A", "1", ".", " ", "\n", "U+2022"}}

InitClean ==
  /\ variant \in Variants
  /\ normIn \in StringsUpTo(MaxLen) \cup {Null}
  /\ normOut = Unset
  /\ normTwice = Unset
  /\ HttpIdle
  /\ ScanIdle

\* const cleanedText = cleanText(extractedText)
Normalize ==
  /\ normOut = Unset
  /\ normOut' = cleanText(variant, normIn)
  /\ UNCHANGED <<variant, normIn, normTwice, httpVars, scanVars>>

\* cleanText applied to its own result
NormalizeAgain ==
  /\ normOut \notin {Unset, TypeError}
  /\ normTwice = Unset
  /\ normTwice' = cleanText(variant, normOut)
  /\ UNCHANGED <<variant, normIn, normOut, httpVars, scanVars>>

NextClean == Normalize \/ NormalizeAgain
SpecClean == InitClean /\ [][NextClean]_vars

(* --------------------------------------------- the scanned-PDF detector alone *)

\* results.some(...) in the place of results.every(...)
isScannedSome(results) == \E i \in DOMAIN results : results[i] = 0

\* results.every(content => content.items.length === 0), results being the
\* number of text items of each page in page order.
isScanned(results) == \A i \in DOMAIN results : results[i] = 0

Pending == [state |-> "pending", items |-> 0]
Rejected == [state |-> "rejected", items |-> 0]
Fulfilled(n) == [state |-> "fulfilled", items |-> n]

InitScan ==
  /\ variant \in Variants
  /\ pdfPages \in UNION {[1 .. n -> 0 .. MaxItems] : n \in 1 .. MaxPages}
  /\ pageChecks = <<>>
  /\ arrivals = <<>>
  /\ scanPc = "getDocument"
  /\ scanResult = FALSE
  /\ HttpIdle
  /\ NormIdle

\* `await pdfjsLib.getDocument(...).promise` resolves; the loop pushes one
\* promise per page, and the function awaits Promise.all(pageChecks).
GetDocumentResolve ==
  /\ scanPc = "getDocument"
  /\ pageChecks' = [i \in DOMAIN pdfPages |-> Pending]
  /\ scanPc' = "Promise.all"
  /\ UNCHANGED <<variant, pdfPages, arrivals, scanResult, httpVars, normVars>>

\* getDocument rejects: the error leaves isScannedPDF.
GetDocumentReject ==
  /\ scanPc = "getDocument"
  /\ scanPc' = "threw"
  /\ UNCHANGED <<variant, pdfPages, pageChecks, arrivals, scanResult, httpVars, normVars>>

\* pdf.getPage(i).then(page => page.getTextContent()) is fulfilled.
PageResolve(i) ==
  /\ i \in DOMAIN pageChecks
  /\ pageChecks[i] = Pending
  /\ pageChecks' = [pageChecks EXCEPT ![i] = Fulfilled(pdfPages[i])]
  /\ arrivals' = Append(arrivals, i)
  /\ UNCHANGED <<variant, pdfPages, scanPc, scanResult, httpVars, normVars>>

\* The same promise is rejected.
PageReject(i) ==
  /\ i \in DOMAIN pageChecks
  /\ pageChecks[i] = Pending
  /\ pageChecks' = [pageChecks EXCEPT ![i] = Rejected]
  /\ arrivals' = Append(arrivals, i)
  /\ UNCHANGED <<variant, pdfPages, scanPc, scanResult, httpVars, normVars>>

\* Promise.all is fulfilled once every page promise is: results holds the
\* values in page order, and isScannedPDF returns results.every(...).
PromiseAllResolve ==
  /\ scanPc = "Promise.all"
  /\ \A i \in DOMAIN pageChecks : pageChecks[i].state = "fulfilled"
  /\ scanResult' = isScanned([i \in DOMAIN pageChecks |-> pageChecks[i].items])
  /\ scanPc' = "returned"
  /\ UNCHANGED <<variant, pdfPages, pageChecks, arrivals, httpVars, normVars>>

\* Promise.all is rejected as soon as one page promise is.
PromiseAllReject ==
  /\ scanPc = "Promise.all"
  /\ \E i \in DOMAIN pageChecks : pageChecks[i].state = "rejected"
  /\ scanPc' = "threw"
  /\ UNCHANGED <<variant, pdfPages, pageChecks, arrivals, scanResult, httpVars, normVars>>

NextScan ==
  \/ GetDocumentResolve
  \/ GetDocumentReject
  \/ \E i \in 1 .. MaxPages : PageResolve(i) \/ PageReject(i)
  \/ PromiseAllResolve
  \/ PromiseAllReject
SpecScan == InitScan /\ [][NextScan]_vars

(* ------------------------------------------------------- the HTTP endpoints *)

\* originalname of the uploaded files the model sends.
FileNames ==
  { <<"A", ".", "P", "D", "F">>, <<"a", ".", "d", "o", "c", "x">>,
    <<"a", ".", "t", "x", "t">> }
\* The text a conversion library yields for a document.
Texts == { <<>>, <<" ", "\n">>, <<"a", "1">>, <<"a", " ", "1">> }
\* What the generation API returns for a document ("" stands for a body
\* or a message content that is empty or null).
Summaries == {"", "summary1", "summary2"}
\* candidates[0].content.parts[0].text of an ad hoc reply ("" when absent).
ReplyTexts == {"", "text"}
\* A body field: absent, empty, or given.
FieldValues == {Undefined, <<>>, <<"x">>}
\* A PDF of the upload model: text items per page.
PdfDocs == { <<0, 0>>, <<0, 1>>, <<1>> }

DotPdf == <<".", "p", "d", "f">>
DotDocx == <<".", "d", "o", "c", "x">>

ToLowerChar(c) ==
  CASE c = "A" -> "a" [] c = "P" -> "p" [] c = "D" -> "d" [] c = "F" -> "f"
    [] OTHER -> c

\* A handler that tests the suffix of originalname as it was sent.
toLowerCaseSkipped(s) == s

RECURSIVE toLowerCase(_)
\* String.prototype.toLowerCase
toLowerCase(s) ==
  IF s = <<>> THEN <<>> ELSE <<ToLowerChar(Head(s))>> \o toLowerCase(Tail(s))

\* String.prototype.endsWith
endsWith(s, suffix) ==
  /\ Len(s) >= Len(suffix)
  /\ SubSeq(s, Len(s) - Len(suffix) + 1, Len(s)) = suffix

\* The branch the upload handler takes on fileName (lines 127-134, 439-446):
\* the function it calls first.
Dispatch(fileName) ==
  IF endsWith(fileName, DotPdf) THEN "isScannedPDF"
  ELSE IF endsWith(fileName, DotDocx) THEN "extractTextDOCX"
  ELSE "extractTextFromOtherDocs"

\* `./temp_docs/${Date.now()}_${fileName}`
DocPath(t, fileName) == [dir |-> "temp_docs", time |-> t, name |-> fileName]
\* `./temp_images/ocr_${Date.now()}.png`
ImagePath(t) == [dir |-> "temp_images", time |-> t, name |-> <<"o", "c", "r">>]

UploadRequest(f) == [NoRequest EXCEPT !.ep = "upload", !.file = f]
AskRequest(q, c) == [NoRequest EXCEPT !.ep = "ask", !.query = q, !.context = c]
FlashcardsRequest(c) == [NoRequest EXCEPT !.ep = "flashcards", !.context = c]
QuizRequest(c) == [NoRequest EXCEPT !.ep = "quiz", !.context = c]
ExplainRequest(q, a) ==
  [NoRequest EXCEPT !.ep = "explain", !.question = q, !.correctAnswer = a]

\* The value thrown by `reject(null)`.
NullReason == "null"

\* What an extractor's catch block returns: null in the OpenAI revisions,
\* "" in the Gemini revision.
ExtractFailure(v) == IF v = "gemini" THEN <<>> ELSE Null

\* What extractTextPDF, extractTextDOCX and extractTextFromOtherDocs return
\* for the library's text t: `t.trim()`, or `t ? t.trim() : ""`.
Trimmed(v, t) == IF v = "gemini" /\ Falsy(t) THEN <<>> ELSE Trim(t)

\* What extractTextFromImages returns for the recognised text t: `data.text`
\* as it is in the OpenAI revisions, trimmed in the Gemini revision.
Recognized(v, t) == IF v = "gemini" THEN Trimmed(v, t) ELSE t

otherVars == <<variant, normVars, scanVars>>

\* The handler is over in state p: the request and the handler's local
\* variables are gone.
End(r, p) ==
  /\ pc' = [pc EXCEPT ![r] = p]
  /\ req' = [req EXCEPT ![r] = NoRequest]
  /\ tempFilePath' = [tempFilePath EXCEPT ![r] = NoPath]
  /\ tempImagePath' = [tempImagePath EXCEPT ![r] = NoPath]

\* `return res.status(st).json({ [field]: value })`, or the same call as the
\* last statement of the handler.
Send(r, st, field, value) ==
  /\ End(r, "done")
  /\ res' = [res EXCEPT ![r] = Append(@, [status |-> st, field |-> field, value |-> value])]

\* The catch block of the upload handler (lines 233-236, 466-469):
\* `res.status(500).json({ error: error.message })`.  Reading .message of a
\* null reason throws inside the catch block: the handler's promise is
\* rejected and no response is sent.
Catch(r, error) ==
  IF error = NullReason
  THEN /\ End(r, "unhandled")
       /\ UNCHANGED res
  ELSE Send(r, 500, "error", error)

\* A request arrives: express calls the handler.  Requests are numbered in
\* the order they arrive.
Arrive(r) ==
  /\ pc[r] = "idle"
  /\ \A q \in Req : q < r => pc[q] # "idle"
  /\ answeredBefore' = [answeredBefore EXCEPT ![r] = {q \in Req : res[q] # <<>>}]

\* What Date.now() may return: the clock does not go back.
DateNow == now .. MaxTime

\* A handler that tests `req.file === null` instead.
NoFileOnlyNull(f) == f = Null

\* `!req.file`
NoFile(f) == Falsy(f)

\* POST /upload up to the first await (lines 114-134, 426-446).
UploadReceive(r, f) ==
  /\ Arrive(r)
  /\ IF NoFile(f)
     THEN /\ Send(r, 400, "error", "No file uploaded")
          /\ UNCHANGED <<now, tempDocs>>
     ELSE \E t \in DateNow :
          LET fileName == toLowerCase(f)
              path == DocPath(t, fileName)
          IN /\ now' = t
             /\ req' = [req EXCEPT ![r] = UploadRequest(f)]
             /\ tempFilePath' = [tempFilePath EXCEPT ![r] = path]
             /\ tempDocs' = tempDocs \cup {path}
             /\ pc' = [pc EXCEPT ![r] = Dispatch(fileName)]
             /\ UNCHANGED <<res, tempImagePath>>
  /\ UNCHANGED <<cache, tempImages, cleanedText, upstreamCalls, otherVars>>

\* cache.has(cleanedText)
cacheHas(key) == key \in DOMAIN cache

\* `!cleanedText`
NoText(cleaned) == Falsy(cleaned)

\* The upload handler from fs.unlinkSync(tempFilePath) to the generation
\* call (lines 136-147, 448-459), extractedText being what the extractor
\* returned.  The paths are not read after the unlink.
AfterExtract(r, extractedText) ==
  LET path == tempFilePath[r]
      cleaned == cleanText(variant, extractedText)
  IN IF path \notin tempDocs
     THEN \* fs.unlinkSync throws ENOENT
          /\ Catch(r, "ENOENT")
          /\ UNCHANGED <<tempDocs, cleanedText, upstreamCalls>>
     ELSE /\ tempDocs' = tempDocs \ {path}
          /\ IF cleaned = TypeError
             THEN /\ Catch(r, "TypeError")
                  /\ UNCHANGED <<cleanedText, upstreamCalls>>
             ELSE /\ cleanedText' = [cleanedText EXCEPT ![r] = cleaned]
                  /\ IF NoText(cleaned)
                     THEN /\ Send(r, 400, "error", "No extractable text found")
                          /\ UNCHANGED upstreamCalls
                     ELSE IF cacheHas(cleaned)
                     THEN /\ Send(r, 200, "summary", cache[cleaned])
                          /\ UNCHANGED upstreamCalls
                     ELSE /\ upstreamCalls' = [upstreamCalls EXCEPT ![r] = @ + 1]
                          /\ pc' = [pc EXCEPT ![r] = "generate"]
                          /\ tempFilePath' = [tempFilePath EXCEPT ![r] = NoPath]
                          /\ tempImagePath' = [tempImagePath EXCEPT ![r] = NoPath]
                          /\ UNCHANGED <<res, req>>

\* isScannedPDF returned for the document doc: `isScanned ? await
\* extractTextFromImages(buffer) : await extractTextPDF(buffer)` (lines 129,
\* 441).
IsScannedPDFReturned(r, doc) ==
  /\ pc' = [pc EXCEPT ![r] = IF isScanned(doc) THEN "extractTextFromImages"
                             ELSE "extractTextPDF"]
  /\ UNCHANGED <<res, req, tempFilePath, tempImagePath>>

\* `await isScannedPDF(buffer)` settles (lines 128-129, 440-441): it throws
\* when pdf.js cannot read the document, and otherwise returns isScanned of
\* the pages; the handler goes on to extractTextFromImages or extractTextPDF.
IsScannedPDFDone(r) ==
  /\ pc[r] = "isScannedPDF"
  /\ \/ Catch(r, "Invalid PDF structure")
     \/ \E doc \in PdfDocs : IsScannedPDFReturned(r, doc)
  /\ UNCHANGED <<now, cache, tempDocs, tempImages, cleanedText, upstreamCalls,
                 answeredBefore, otherVars>>

\* extractTextFromImages up to `await Tesseract.recognize` (lines 70-81,
\* 311-330): the sharp calls settle (metadata and toBuffer touch no state of
\* the server, and are one step here).  When they fail the catch block
\* returns; otherwise the image is written and recognition starts.
SharpDone(r) ==
  /\ pc[r] = "extractTextFromImages"
  /\ \/ /\ AfterExtract(r, ExtractFailure(variant))
        /\ UNCHANGED <<now, tempImages>>
     \/ \E t \in DateNow :
          /\ now' = t
          /\ tempImagePath' = [tempImagePath EXCEPT ![r] = ImagePath(t)]
          /\ tempImages' = tempImages \cup {ImagePath(t)}
          /\ pc' = [pc EXCEPT ![r] = "recognize"]
          /\ UNCHANGED <<tempDocs, cleanedText, upstreamCalls, res, req, tempFilePath>>
  /\ UNCHANGED <<cache, answeredBefore, otherVars>>

\* `await Tesseract.recognize(tempImagePath, "eng")` settles (lines 81-88,
\* 330-337).  On a rejection the catch block returns and the image stays.  On
\* success fs.unlinkSync(tempImagePath) runs, which throws into the same catch
\* block when the file is not there.
RecognizeDone(r) ==
  /\ pc[r] = "recognize"
  /\ \/ /\ AfterExtract(r, ExtractFailure(variant))
        /\ UNCHANGED tempImages
     \/ \E t \in Texts :
          IF tempImagePath[r] \in tempImages
          THEN /\ tempImages' = tempImages \ {tempImagePath[r]}
               /\ AfterExtract(r, Recognized(variant, t))
          ELSE /\ AfterExtract(r, ExtractFailure(variant))
               /\ UNCHANGED tempImages
  /\ UNCHANGED <<now, cache, answeredBefore, otherVars>>

\* `await pdfParse(buffer)` settles in extractTextPDF (lines 59-67, 300-308).
ExtractTextPDFDone(r) ==
  /\ pc[r] = "extractTextPDF"
  /\ \/ AfterExtract(r, ExtractFailure(variant))
     \/ \E t \in Texts : AfterExtract(r, Trimmed(variant, t))
  /\ UNCHANGED <<now, cache, tempImages, answeredBefore, otherVars>>

\* `await mammoth.extractRawText({ buffer })` settles in extractTextDOCX
\* (lines 91-99, 341-349).
ExtractTextDOCXDone(r) ==
  /\ pc[r] = "extractTextDOCX"
  /\ \/ AfterExtract(r, ExtractFailure(variant))
     \/ \E t \in Texts : AfterExtract(r, Trimmed(variant, t))
  /\ UNCHANGED <<now, cache, tempImages, answeredBefore, otherVars>>

\* What extractTextFromOtherDocs rejects with: null in the OpenAI revisions
\* (line 106), the converter's error in the Gemini revision (line 357).
RejectReason(v) == IF v = "gemini" THEN "textract error" ELSE NullReason

\* The callback of textract.fromFileWithPath runs (lines 101-112, 352-363).
\* The converter reads the file at tempFilePath: it fails when the file is
\* not there, and may fail on a file that is.
ExtractTextFromOtherDocsDone(r) ==
  /\ pc[r] = "extractTextFromOtherDocs"
  /\ \/ /\ Catch(r, RejectReason(variant))
        /\ UNCHANGED <<tempDocs, cleanedText, upstreamCalls>>
     \/ /\ tempFilePath[r] \in tempDocs
        /\ \E t \in Texts : AfterExtract(r, Trimmed(variant, t))
  /\ UNCHANGED <<now, cache, tempImages, answeredBefore, otherVars>>

\* A handler that caches a placeholder for the text whose generation failed.
GenerateFailedCaching(r) ==
  /\ Send(r, 500, "error", "Failed to generate summary with Gemini.")
  /\ cache' = Put(cache, cleanedText[r], "")
  /\ UNCHANGED upstreamCalls

\* A handler that calls the generation API again when the call failed.
GenerateFailedRetrying(r) ==
  /\ upstreamCalls' = [upstreamCalls EXCEPT ![r] = @ + 1]
  /\ UNCHANGED <<cache, pc, req, res, tempFilePath, tempImagePath>>

\* What the upload handler does when the generation call fails.  OpenAI
\* revisions (lines 147, 233-236): the SDK's error is thrown to the catch
\* block.  Gemini revision (lines 420-423, 460-462):
\* generateSummaryWithGemini returns null, which is answered with a 500.
GenerateFailed(r) ==
  /\ IF variant = "gemini"
     THEN Send(r, 500, "error", "Failed to generate summary with Gemini.")
     ELSE Catch(r, "upstream error")
  /\ UNCHANGED <<cache, upstreamCalls>>

\* What it does with the summary the call returned.  OpenAI revisions (lines
\* 229-232): the content is cached and sent.  Gemini revision (lines 460-465):
\* a falsy summary is answered with a 500, any other is cached and sent.
GenerateSucceeded(r, summary) ==
  /\ IF variant = "gemini" /\ summary = ""
     THEN /\ Send(r, 500, "error", "Failed to generate summary with Gemini.")
          /\ UNCHANGED cache
     ELSE /\ cache' = Put(cache, cleanedText[r], summary)
          /\ Send(r, 200, "summary", summary)
  /\ UNCHANGED upstreamCalls

\* The generation call of the upload handler settles.
GenerateDone(r) ==
  /\ pc[r] = "generate"
  /\ \/ GenerateFailed(r)
     \/ \E summary \in Summaries : GenerateSucceeded(r, summary)
  /\ UNCHANGED <<now, tempDocs, tempImages, cleanedText, answeredBefore, otherVars>>

\* A validation written `!a && !b`.
MissingFieldBoth(a, b) == Falsy(a) /\ Falsy(b)

\* The validation of an ad hoc endpoint: `!a || !b`.
MissingField(a, b) == Falsy(a) \/ Falsy(b)

\* An ad hoc handler up to `await axios.post(...)`: a 400 when a required
\* field is missing, and otherwise one call of the generation API.  These
\* endpoints exist in the Gemini revision only.
AdHocReceive(r, request, a, b, message) ==
  /\ variant = "gemini"
  /\ Arrive(r)
  /\ IF MissingField(a, b)
     THEN /\ Send(r, 400, "error", message)
          /\ UNCHANGED upstreamCalls
     ELSE /\ req' = [req EXCEPT ![r] = request]
          /\ upstreamCalls' = [upstreamCalls EXCEPT ![r] = @ + 1]
          /\ pc' = [pc EXCEPT ![r] = "axios"]
          /\ UNCHANGED <<res, tempFilePath, tempImagePath>>
  /\ UNCHANGED <<now, cache, tempDocs, tempImages, cleanedText, otherVars>>

\* POST /ask (lines 473-481)
AskReceive(r, query, context) ==
  AdHocReceive(r, AskRequest(query, context), query, context,
               "Query and context are required.")

\* POST /flashcards (lines 520-528)
FlashcardsReceive(r, context) ==
  AdHocReceive(r, FlashcardsRequest(context), context, context,
               "Context is required to generate flashcards.")

\* POST /quiz (lines 576-584)
QuizReceive(r, context) ==
  AdHocReceive(r, QuizRequest(context), context, context,
               "Context is required to generate quiz questions.")

\* POST /explain (lines 656-664)
ExplainReceive(r, question, correctAnswer) ==
  AdHocReceive(r, ExplainRequest(question, correctAnswer), question, correctAnswer,
               "Question and correct answer are required for explanation.")

\* `await axios.post(...)` settles in /ask (lines 509-517): the answer text,
\* or the fallback message when the reply holds none; a 500 on a failure.
AskDone(r) ==
  /\ pc[r] = "axios"
  /\ req[r].ep = "ask"
  /\ \/ Send(r, 500, "error", "Failed to fetch response from AI.")
     \/ \E text \in ReplyTexts :
          Send(r, 200, "response",
               IF text = "" THEN "I couldn't process your question. Try again!"
               ELSE text)
  /\ UNCHANGED <<now, cache, tempDocs, tempImages, cleanedText, upstreamCalls,
                 answeredBefore, otherVars>>

\* `await axios.post(...)` settles in /flashcards, /quiz or /explain (lines
\* 561-573, 641-653, 690-702): the text under `field`, a 500 with `message`
\* on a failure or when the reply holds no text.
TextDone(r, ep, field, message) ==
  /\ pc[r] = "axios"
  /\ req[r].ep = ep
  /\ \/ Send(r, 500, "error", message)
     \/ \E text \in ReplyTexts :
          IF text = "" THEN Send(r, 500, "error", message)
          ELSE Send(r, 200, field, text)
  /\ UNCHANGED <<now, cache, tempDocs, tempImages, cleanedText, upstreamCalls,
                 answeredBefore, otherVars>>

FlashcardsDone(r) ==
  TextDone(r, "flashcards", "flashcards", "Failed to generate flashcards.")
QuizDone(r) == TextDone(r, "quiz", "quiz", "Failed to generate quiz.")
ExplainDone(r) ==
  TextDone(r, "explain", "explanation", "Failed to generate explanation.")

Init ==
  /\ variant \in Variants
  /\ HttpIdle
  /\ NormIdle
  /\ ScanIdle

Next ==
  \E r \in Req :
    \/ \E f \in FileNames \cup {Undefined} : UploadReceive(r, f)
    \/ IsScannedPDFDone(r)
    \/ SharpDone(r)
    \/ RecognizeDone(r)
    \/ ExtractTextPDFDone(r)
    \/ ExtractTextDOCXDone(r)
    \/ ExtractTextFromOtherDocsDone(r)
    \/ GenerateDone(r)
    \/ \E q, c \in FieldValues : AskReceive(r, q, c)
    \/ \E c \in FieldValues : FlashcardsReceive(r, c)
    \/ \E c \in FieldValues : QuizReceive(r, c)
    \/ \E q, a \in FieldValues : ExplainReceive(r, q, a)
    \/ AskDone(r)
    \/ FlashcardsDone(r)
    \/ QuizDone(r)
    \/ ExplainDone(r)

Spec == Init /\ [][Next]_vars
(* ------------------------------------------------------------ the claims *)

\* The response `res.status(st).json({ error: message })`.
ErrorResponse(st, message) == [status |-> st, field |-> "error", value |-> message]

\* C1: of two uploads whose texts normalise to the same string, the
\* earlier of which was answered with a summary it had generated, the later
\* is answered with that same summary and makes no call of the generation
\* API: one call over the two uploads.
C1_RepeatedTextServedFromCache ==
  \A i, j \in Req :
    (/\ i < j
     /\ res[i] # <<>>
     /\ res[j] # <<>>
     /\ cleanedText[i] # Unset
     /\ cleanedText[i] = cleanedText[j]
     /\ res[i][1].status = 200
     /\ upstreamCalls[i] = 1)
    => /\ res[j] = res[i]
       /\ upstreamCalls[j] = 0

\* C2: once every upload received has been answered, no temporary document
\* and no temporary image is left, whatever path each handler took.
C2_TempFilesDeleted ==
  (\A r \in Req : pc[r] \in {"idle", "done"})
  => /\ tempDocs = {}
     /\ tempImages = {}

\* C3: a handler waiting for the generation call makes no further call; and
\* when the wait ends without a summary to send, the upload is answered with
\* one 500, after exactly one call, and the cache is as it was.
C3_UpstreamFailure ==
  [][\A r \in Req :
       /\ upstreamCalls[r] >= 1 => upstreamCalls'[r] = upstreamCalls[r]
       /\ (/\ pc[r] = "generate"
           /\ pc'[r] # "generate"
           /\ (res'[r] = <<>> \/ res'[r][1].status # 200))
          => /\ Len(res'[r]) = 1
             /\ res'[r][1].status = 500
             /\ res'[r][1].field = "error"
             /\ upstreamCalls'[r] = 1
             /\ cache' = cache]_vars

\* An upload arrived after an upload of the same text had been answered
\* with a 500 for a failed generation, and is waiting for its own call.
C3_Witness ==
  \E i, j \in Req :
    /\ i \in answeredBefore[j]
    /\ res[i] # <<>>
    /\ res[i][1].status = 500
    /\ upstreamCalls[i] = 1
    /\ cleanedText[i] = <<"a", " ", "1">>
    /\ cleanedText[j] = cleanedText[i]
    /\ pc[j] = "generate"
    /\ upstreamCalls[j] = 1
    /\ cache = Empty

\* C4: an upload whose extracted text is empty or holds only whitespace is
\* answered with the 400 "No extractable text found", makes no call of the
\* generation API, and leaves the cache as it was.
C4_EmptyTextRejected ==
  [][\A r \in Req : \A t \in Texts :
       (/\ Trim(t) = <<>>
        /\ pc[r] \in {"extractTextFromImages", "recognize", "extractTextPDF",
                      "extractTextDOCX", "extractTextFromOtherDocs"}
        /\ AfterExtract(r, t))
       => /\ res'[r] = <<ErrorResponse(400, "No extractable text found")>>
          /\ upstreamCalls'[r] = 0
          /\ cache' = cache]_vars

\* C5: an upload with no file is answered with the 400 "No file uploaded"
\* at once: no file is written, no detector or extractor is started, the
\* cache is as it was and no call of the generation API is made.
C5_NoFileRejected ==
  [][\A r \in Req :
       UploadReceive(r, Undefined)
       => /\ res'[r] = <<ErrorResponse(400, "No file uploaded")>>
          /\ pc'[r] = "done"
          /\ tempDocs' = tempDocs
          /\ tempImages' = tempImages
          /\ cache' = cache
          /\ upstreamCalls' = upstreamCalls]_vars

\* An upload with no file was answered while the temporary document of
\* another upload was there.
C5_Witness ==
  \E r \in Req :
    /\ res[r] = <<ErrorResponse(400, "No file uploaded")>>
    /\ upstreamCalls[r] = 0
    /\ tempDocs # {}

\* C6: an ad hoc request with a required field absent or empty is answered
\* with a 400 and makes no call of the generation API: /ask requires query
\* and context, /flashcards and /quiz context, /explain question and
\* correctAnswer.
C6_MissingFieldRejected ==
  [][\A r \in Req :
       (pc[r] = "idle" /\ pc'[r] # "idle")
       => \A a, b \in FieldValues :
            (\/ (a \in {Undefined, <<>>} \/ b \in {Undefined, <<>>})
                  /\ (AskReceive(r, a, b) \/ ExplainReceive(r, a, b))
             \/ a \in {Undefined, <<>>}
                  /\ (FlashcardsReceive(r, a) \/ QuizReceive(r, a)))
            => /\ Len(res'[r]) = 1
               /\ res'[r][1].status = 400
               /\ pc'[r] = "done"
               /\ upstreamCalls' = upstreamCalls
               /\ upstreamCalls[r] = 0]_vars

\* Two ad hoc requests were rejected for a missing field: an /ask and an
\* /explain.
C6_Witness ==
  \E r, q \in Req :
    /\ res[r] = <<ErrorResponse(400, "Query and context are required.")>>
    /\ res[q] = <<ErrorResponse(400, "Question and correct answer are required for explanation.")>>
    /\ upstreamCalls[r] = 0
    /\ upstreamCalls[q] = 0

\* C7: no request makes more than one call of the generation API; a request
\* waiting for the API, and a request answered with what the API returned or
\* with the error of a failed call, has made exactly one.
C7_ExactlyOneUpstreamCall ==
  \A r \in Req :
    /\ upstreamCalls[r] <= 1
    /\ pc[r] \in {"generate", "axios"} => upstreamCalls[r] = 1
    /\ (/\ res[r] # <<>>
        /\ \/ res[r][1].field \in {"response", "flashcards", "quiz", "explanation"}
           \/ res[r][1].value \in {"Failed to generate summary with Gemini.",
                                   "upstream error",
                                   "Failed to fetch response from AI.",
                                   "Failed to generate flashcards.",
                                   "Failed to generate quiz.",
                                   "Failed to generate explanation."})
       => upstreamCalls[r] = 1

\* An upload was answered with the summary it generated, and an ad hoc
\* request with the error of its failed call: one call each.
C7_Witness ==
  \E r, q \in Req :
    /\ res[r] # <<>>
    /\ res[r][1].field = "summary"
    /\ upstreamCalls[r] = 1
    /\ res[q] = <<ErrorResponse(500, "Failed to generate flashcards.")>>
    /\ upstreamCalls[q] = 1

\* C8: cleanText is idempotent: cleanText(cleanText(s)) = cleanText(s) for
\* every string s.
C8_Idempotent == normTwice # Unset => normTwice = normOut

\* C9: cleanText is total: for the empty string and for null it returns
\* the empty string, and throws nothing.
C9_Total == (normIn \in {<<>>, Null} /\ normOut # Unset) => normOut = <<>>

\* C10: isScannedPDF returns true exactly when every page of the PDF has no
\* text item, whatever the order in which the pages' promises settled, and
\* returns only when every page has been read.
C10_ScannedIffAllPagesEmpty ==
  scanPc = "returned"
  => /\ scanResult = (\A i \in DOMAIN pdfPages : pdfPages[i] = 0)
     /\ Len(arrivals) = Len(pdfPages)
     /\ \A i \in DOMAIN pageChecks : pageChecks[i].state = "fulfilled"

\* isScannedPDF returned false for a PDF whose first page is empty, the
\* pages having arrived out of page order.
C10_Witness ==
  /\ scanPc = "returned"
  /\ scanResult = FALSE
  /\ Len(pdfPages) >= 2
  /\ pdfPages[1] = 0
  /\ arrivals[1] # 1
\* C11: when extractTextPDF, extractTextFromImages or extractTextDOCX fails
\* inside, the upload is answered with the 400 "No extractable text found",
\* and never with a 500.
C11_ExtractorFailureIs400 ==
  [][\A r \in Req :
       (/\ pc[r] \in {"extractTextFromImages", "recognize", "extractTextPDF",
                      "extractTextDOCX"}
        /\ AfterExtract(r, ExtractFailure(variant)))
       => res'[r] = <<ErrorResponse(400, "No extractable text found")>>]_vars

\* C12: when textract fails on an upload that is neither .pdf nor .docx,
\* the upload is answered with one 500, no call of the generation API is
\* made and the cache is as it was.
C12_ConverterFailureIs500 ==
  [][\A r \in Req :
       (/\ pc[r] = "extractTextFromOtherDocs"
        /\ Catch(r, RejectReason(variant)))
       => /\ Len(res'[r]) = 1
          /\ res'[r][1].status = 500
          /\ upstreamCalls'[r] = 0
          /\ cache' = cache]_vars

\* C13: two uploads in flight never hold the same temporary document path
\* nor the same temporary image path.
C13_OwnTempPaths ==
  \A r, q \in Req :
    r # q
    => /\ tempFilePath[r] # NoPath => tempFilePath[r] # tempFilePath[q]
       /\ tempImagePath[r] # NoPath => tempImagePath[r] # tempImagePath[q]
\* C14: an upload runs one extraction strategy, chosen by the suffix of its
\* file name, whatever the case of the letters: for .pdf isScannedPDF, and
\* then extractTextFromImages when every page is empty and extractTextPDF
\* otherwise; for .docx extractTextDOCX; for any other name
\* extractTextFromOtherDocs.  Once an extractor is over no other is started
\* (and none is started when isScannedPDF throws).
C14_OneStrategyBySuffix ==
  [][\A r \in Req :
       /\ (pc[r] = "idle" /\ pc'[r] # "idle")
          => /\ UploadReceive(r, <<"A", ".", "P", "D", "F">>)
                => pc'[r] = "isScannedPDF"
             /\ UploadReceive(r, <<"a", ".", "d", "o", "c", "x">>)
                => pc'[r] = "extractTextDOCX"
             /\ UploadReceive(r, <<"a", ".", "t", "x", "t">>)
                => pc'[r] = "extractTextFromOtherDocs"
       /\ (pc[r] = "isScannedPDF" /\ pc'[r] # pc[r])
          => /\ pc'[r] \in {"extractTextFromImages", "extractTextPDF", "done"}
             /\ \A doc \in PdfDocs :
                  IsScannedPDFReturned(r, doc)
                  => pc'[r] = IF \A i \in DOMAIN doc : doc[i] = 0
                              THEN "extractTextFromImages"
                              ELSE "extractTextPDF"
       /\ (pc[r] = "extractTextFromImages" /\ pc'[r] # pc[r])
          => pc'[r] \in {"recognize", "generate", "done", "unhandled"}
       /\ (/\ pc[r] \in {"recognize", "extractTextPDF", "extractTextDOCX",
                         "extractTextFromOtherDocs"}
           /\ pc'[r] # pc[r])
          => pc'[r] \in {"generate", "done", "unhandled"}
       /\ (pc[r] \in {"generate", "done", "unhandled"})
          => pc'[r] \in {pc[r], "done", "unhandled"}]_vars

\* An upload named A.PDF is in the OCR of extractTextFromImages while an
\* upload named a.txt is in extractTextFromOtherDocs.
C14_Witness ==
  \E r, q \in Req :
    /\ req[r].file = <<"A", ".", "P", "D", "F">>
    /\ pc[r] = "recognize"
    /\ req[q].file = <<"a", ".", "t", "x", "t">>
    /\ pc[q] = "extractTextFromOtherDocs"
\* C15: in what cleanText returns, every one of . , ; : is the last
\* character or is followed by a whitespace character.
C15_PunctuationFollowedBySpace ==
  normOut \notin {Unset, TypeError}
  => \A i \in 1 .. Len(normOut) - 1 :
       normOut[i] \in Punct => normOut[i + 1] \in WhiteSpace

\* C16: in what cleanText returns, no letter is next to a digit, in either
\* order.
C16_LetterDigitSplit ==
  normOut \notin {Unset, TypeError}
  => \A i \in 1 .. Len(normOut) - 1 :
       /\ ~(normOut[i] \in Letter /\ normOut[i + 1] \in Digit)
       /\ ~(normOut[i] \in Digit /\ normOut[i + 1] \in Letter)

\* cleanText was given a letter, a digit and a letter in a row, and
\* returned them apart.
C16_Witness ==
  /\ normIn = <<"A", "1", "a">>
  /\ normOut = <<"A", " ", "1", " ", "a">>
\* C17: no request is sent two responses, and a handler that is over has
\* sent one: no upload is left without a response once its external calls
\* have settled.
C17_ExactlyOneResponse ==
  \A r \in Req :
    /\ Len(res[r]) <= 1
    /\ pc[r] \in {"done", "unhandled"} => Len(res[r]) = 1

\* C18: an entry of the cache is never removed and never given another
\* summary, and no two uploads of the same text are waiting for the
\* generation API together.
C18_CacheWrittenOnce ==
  [][/\ \A key \in DOMAIN cache :
          /\ key \in DOMAIN cache'
          /\ cache'[key] = cache[key]
     /\ \A r, q \in Req :
          (r # q /\ pc[r] = "generate" /\ pc[q] = "generate")
          => cleanedText[r] # cleanedText[q]]_vars
====
